---- MODULE Spec2Model ----
(***************************************************************************)
(* Login handshakes of the Extreme ERS driver                              *)
(* (netmiko/extreme/extreme_ers_ssh.py):                                   *)
(*   ExtremeErsSSH.special_login_handler   (byte-oriented, SSH)            *)
(*   ExtremeErsTelnet.telnet_login         (line-oriented, Telnet)         *)
(*                                                                         *)
(* One behaviour of the model is one call of one of the two methods.  The  *)
(* environment is the raw channel: each read_channel() either delivers a   *)
(* fragment or (Telnet) raises EOFError.  A fragment is a sequence of      *)
(* tokens; a token stands for a literal piece of text, so that substring   *)
(* tests and regular-expression searches are computed on the text and a    *)
(* prompt can be split over two fragments.                                 *)
(***************************************************************************)
EXTENDS Integers, Sequences, FiniteSets, TLC

(***************************************************************************)
(* Bounds of the model.                                                    *)
(***************************************************************************)
\* largest max_loops argument a call of telnet_login is given
MaxLoops == 3

(***************************************************************************)
(* Text.                                                                   *)
(***************************************************************************)
\* whitespace tokens (\s of the regular expressions): a blank and a newline
Whitespace == {"sp", "nl"}

\* The fragments the channel may deliver.
Fragments ==
  { <<>>,                                                 \* nothing available
    <<"Enter", "sp", "Ctrl-Y">>,                          \* begin banner
    <<"Use arrow keys to highlight option">>,             \* menu screen
    <<"Enter", "sp", "Username">>,                        \* username prompt
    <<"Enter", "sp", "Password">>,                        \* password prompt
    <<"Enter">>,                                          \* first half of a split prompt
    <<"sp", "Username">>,                                 \* second half (contains "sername")
    <<"Password">>,                                       \* bare "Password" (contains "ssword")
    <<"x", "#">>,                                         \* switch#
    <<"x", ">", "sp">>,                                   \* switch> with trailing blank
    <<"#", "x">>,                                         \* '#' inside a line: no prompt
    <<"Ctrl-Y", "nl", "x", "#">>,                         \* banner and prompt together
    <<"Use arrow keys to highlight option", "nl", "x", ">">>,
    <<"Ctrl-Y", "Use arrow keys to highlight option", "nl",
      "Enter", "Username", "nl", "Enter", "Password">>,   \* all four markers
    <<"Enter", "Password", "nl", "x", "#", "nl", "x">> }  \* prompt line before more text

\* "needle in output" for a needle that is one token
Contains(output, needle) == \E k \in 1..Len(output) : output[k] = needle

\* "sername" in output / "ssword" in output: the tokens whose text holds the needle
ContainsSername(output) == Contains(output, "Username")
ContainsSsword(output) == Contains(output, "Password")

\* re.search(r"[Ee]nter\s*<word>", output, flags=re.I)
SearchPrompt(word, output) ==
  \E a \in 1..Len(output) : \E b \in (a+1)..Len(output) :
     /\ output[a] = "Enter"
     /\ output[b] = word
     /\ \A k \in (a+1)..(b-1) : output[k] \in Whitespace

\* re.search(r"<ch>\s*$", output, flags=re.M): ch, then whitespace, then the
\* end of a line (the end of the text or the position before a newline)
SearchTerminator(ch, output) ==
  \E a \in 1..Len(output) : \E b \in (a+1)..(Len(output)+1) :
     /\ output[a] = ch
     /\ \A k \in (a+1)..(b-1) : output[k] \in Whitespace
     /\ (b = Len(output) + 1 \/ output[b] = "nl")


(***************************************************************************)
(* Channel operations and what the methods put on the channel.             *)
(***************************************************************************)
\* self.read_channel() returning the fragment f
ReadOp(f) == [op |-> "read", arg |-> f]
\* self.write_channel(data)
WriteOp(data) == [op |-> "write", arg |-> data]
\* time.sleep(factor * delay_factor)
SleepOp(factor) == [op |-> "sleep", arg |-> <<factor>>]
\* self.remote_conn.close()
CloseOp == [op |-> "close", arg |-> <<>>]

\* CTRL_Y = "\x19"
CTRL_Y == <<"\\x19">>
\* b"\x19\n"
CtrlYLine == <<"\\x19", "\\n">>
\* b"c\n"
MenuC == <<"c", "\\n">>
\* b"\x09"
Tab == <<"\\x09">>
\* self.username + self.RETURN, self.password + self.RETURN, self.RETURN
SshUsername == <<"username", "RETURN">>
SshPassword == <<"password", "RETURN">>
SshReturn == <<"RETURN">>
\* self.username + self.TELNET_RETURN, self.password + self.TELNET_RETURN,
\* self.TELNET_RETURN
TelnetUsername == <<"username", "TELNET_RETURN">>
TelnetPassword == <<"password", "TELNET_RETURN">>
TelnetReturn == <<"TELNET_RETURN">>

\* self.host
Host == "host"

\* the writes among a sequence of channel operations, in order
IsWrite(e) == e.op = "write"
WritesOf(ops) ==
  LET w == SelectSeq(ops, IsWrite) IN [k \in 1..Len(w) |-> w[k].arg]
\* how many of the writes wrote data
CountOf(data, ws) == Cardinality({k \in 1..Len(ws) : ws[k] = data})

\* result of a call that has not ended
NoResult == [kind |-> "none", exc |-> "", value |-> <<>>]
\* "return value"
Returned(value) == [kind |-> "return", exc |-> "", value |-> value]
\* msg = f"Login failed: {self.host}"; raise NetmikoAuthenticationException(msg)
LoginFailed ==
  [kind |-> "raise", exc |-> "NetmikoAuthenticationException",
   value |-> <<"Login failed: ", Host>>]
\* an EOFError that no handler of the method catches
UncaughtEOF == [kind |-> "raise", exc |-> "EOFError", value |-> <<>>]

(***************************************************************************)
(* State of one call.                                                      *)
(***************************************************************************)
VARIABLES
  call,        \* the method called: "telnet_login" or "special_login_handler"
  pc,          \* "loop" (at the while test), "returned" or "raised"
  max_loops,   \* telnet_login's max_loops argument
  i,           \* the attempt counter i
  output,      \* the local output: the fragment read last
  return_msg,  \* telnet_login's return_msg
  sent_user,   \* telnet_login's sent_user
  sent_pass,   \* telnet_login's sent_pass
  result,      \* how the call ended: value returned or exception raised
  cycle_ops,   \* channel operations and sleeps of the latest cycle, in order
  frags,       \* telnet_login: every fragment read during the call, in order
  writes,      \* telnet_login: every write of the call, in order
  reads,       \* number of read_channel() calls made
  closes,      \* number of remote_conn.close() calls made
  user_writes,   \* special_login_handler: writes of username + RETURN made
  pass_writes,   \* special_login_handler: writes of password + RETURN made
  sername_reads, \* special_login_handler: fragments read that contain "sername"
  empty_reads,   \* special_login_handler: empty fragments read
  slept          \* special_login_handler: time slept, in tenths of delay_factor

\* what special_login_handler did so far
sshTotals == <<user_writes, pass_writes, sername_reads, empty_reads, slept>>

vars == <<call, pc, max_loops, i, output, return_msg, sent_user, sent_pass,
          result, cycle_ops, frags, writes, reads, closes, sshTotals>>

\* a sleep factor in tenths: time.sleep(0.1 * ...), (0.5 * ...), (1 * ...)
SleepTenths(factor) ==
  CASE factor = "0.1" -> 1
    [] factor = "0.5" -> 5
    [] factor = "1" -> 10

\* total time slept by a sequence of operations, in tenths of delay_factor
RECURSIVE SleptOf(_)
SleptOf(ops) ==
  IF ops = <<>> THEN 0
  ELSE (IF Head(ops).op = "sleep" THEN SleepTenths(Head(ops).arg[1]) ELSE 0)
         + SleptOf(Tail(ops))

\* number of close() calls among channel operations
ClosesOf(ops) == Cardinality({k \in 1..Len(ops) : ops[k].op = "close"})

\* read_channel() raising EOFError
ReadEOF == [op |-> "read", arg |-> <<"EOFError">>]

(***************************************************************************)
(* ExtremeErsTelnet.telnet_login                                           *)
(***************************************************************************)
\* while i <= max_loops
TelnetLoopCond(n, limit) == n <= limit

\* "return_msg = output" in place of "+="
Accumulate_Overwrite(msg, out) == out

\* return_msg += output
Accumulate(msg, out) == msg \o out

\* if "Ctrl-Y" in output: self.write_channel(b"\x19\n")
CtrlYResponse(out) ==
  IF Contains(out, "Ctrl-Y") THEN <<WriteOp(CtrlYLine)>> ELSE <<>>

\* the menu step as an elif of the Ctrl-Y step
MenuResponse_Elif(out) ==
  IF Contains(out, "Use arrow keys to highlight option") /\ ~Contains(out, "Ctrl-Y")
  THEN <<WriteOp(MenuC)>> ELSE <<>>

\* if "Use arrow keys to highlight option" in output: self.write_channel(b"c\n")
MenuResponse(out) ==
  IF Contains(out, "Use arrow keys to highlight option")
  THEN <<WriteOp(MenuC)>> ELSE <<>>

\* the username step without its "and not sent_user"
UsernameResponse_NoGuard(out, su) ==
  IF SearchPrompt("Username", out)
  THEN <<WriteOp(Tab), SleepOp("0.1"), WriteOp(TelnetUsername), SleepOp("1")>>
  ELSE <<>>

\* if re.search(username_pattern, output, flags=re.I) and not sent_user: ...
UsernameResponse(out, su) ==
  IF SearchPrompt("Username", out) /\ ~su
  THEN <<WriteOp(Tab), SleepOp("0.1"), WriteOp(TelnetUsername), SleepOp("1")>>
  ELSE <<>>

\* the username step without its "sent_user = True"
UsernameFlag_NotSet(out, su) == su

\* sent_user after the username step
UsernameFlag(out, su) ==
  IF SearchPrompt("Username", out) /\ ~su THEN TRUE ELSE su

\* the password step without its "and not sent_pass"
PasswordResponse_NoGuard(out, sp) ==
  IF SearchPrompt("Password", out)
  THEN <<WriteOp(TelnetPassword), SleepOp("0.5")>>
  ELSE <<>>

\* if re.search(pwd_pattern, output, flags=re.I) and not sent_pass: ...
PasswordResponse(out, sp) ==
  IF SearchPrompt("Password", out) /\ ~sp
  THEN <<WriteOp(TelnetPassword), SleepOp("0.5")>>
  ELSE <<>>

\* sent_pass after the password step
PasswordFlag(out, sp) ==
  IF SearchPrompt("Password", out) /\ ~sp THEN TRUE ELSE sp

\* the recognizers as one if/elif chain: the first match wins
TelnetResponses_FirstMatchOnly(out, su, sp) ==
  IF CtrlYResponse(out) # <<>> THEN CtrlYResponse(out)
  ELSE IF MenuResponse(out) # <<>> THEN MenuResponse(out)
  ELSE IF UsernameResponse(out, su) # <<>> THEN UsernameResponse(out, su)
  ELSE PasswordResponse(out, sp)

\* the recognizers with the menu step ahead of the Ctrl-Y step
TelnetResponses_MenuFirst(out, su, sp) ==
  MenuResponse(out) \o CtrlYResponse(out)
    \o UsernameResponse(out, su) \o PasswordResponse(out, sp)

\* the four recognizers of one cycle, in the order of the code
TelnetResponses(out, su, sp) ==
  CtrlYResponse(out) \o MenuResponse(out)
    \o UsernameResponse(out, su) \o PasswordResponse(out, sp)

\* the success test without its alternate terminator
PromptFound_PrimaryOnly(out) == SearchTerminator("#", out)

\* re.search(pri_prompt_terminator, output, flags=re.M)
\*   or re.search(alt_prompt_terminator, output, flags=re.M)
PromptFound(out) == SearchTerminator("#", out) \/ SearchTerminator(">", out)

\* the EOFError handler closing the connection twice
ReadErrorHandler_CloseTwice == <<CloseOp, CloseOp>>

\* the EOFError handler without its close()
ReadErrorHandler_NoClose == <<>>

\* except EOFError: self.remote_conn.close()
ReadErrorHandler == <<CloseOp>>

\* the failed probe without its close()
ProbeFailedHandler_NoClose == <<>>

\* after the failed probe: self.remote_conn.close()
ProbeFailedHandler == <<CloseOp>>

\* the recognizers searching the accumulated return_msg
Scanned_Accumulated(msg, out) == msg

\* the text the recognizers search: the second argument of every re.search
\* and the right operand of every "in" is output, not return_msg
Scanned(msg, out) == out

\* One cycle of the main loop in which read_channel() delivers f.
TelnetCycle(f) ==
  /\ call = "telnet_login" /\ pc = "loop"
  /\ TelnetLoopCond(i, max_loops)
  /\ LET msg == Accumulate(return_msg, f)
         txt == Scanned(msg, f)
         resp == TelnetResponses(txt, sent_user, sent_pass)
         ops == IF PromptFound(txt)
                THEN <<ReadOp(f)>> \o resp
                ELSE <<ReadOp(f)>> \o resp \o <<SleepOp("0.5")>>
     IN /\ output' = f
        /\ return_msg' = msg
        /\ sent_user' = UsernameFlag(txt, sent_user)
        /\ sent_pass' = PasswordFlag(txt, sent_pass)
        /\ cycle_ops' = ops
        /\ writes' = writes \o WritesOf(ops)
        /\ IF PromptFound(txt)
           THEN /\ pc' = "returned"
                /\ result' = Returned(msg)
                /\ i' = i
           ELSE /\ pc' = "loop"
                /\ result' = result
                /\ i' = i + 1
  /\ frags' = Append(frags, f)
  /\ reads' = reads + 1
  /\ UNCHANGED <<call, max_loops, closes, sshTotals>>

\* One cycle of the main loop in which read_channel() raises EOFError.
TelnetCycleEOF ==
  /\ call = "telnet_login" /\ pc = "loop"
  /\ TelnetLoopCond(i, max_loops)
  /\ LET ops == <<ReadEOF>> \o ReadErrorHandler
     IN /\ cycle_ops' = ops
        /\ closes' = closes + ClosesOf(ops)
        /\ writes' = writes \o WritesOf(ops)
  /\ reads' = reads + 1
  /\ pc' = "raised"
  /\ result' = LoginFailed
  /\ UNCHANGED <<call, max_loops, i, output, return_msg, sent_user, sent_pass, frags,
                 sshTotals>>

\* The probe after the loop ("Last try to see if we already logged in"),
\* read_channel() delivering f.
TelnetProbe(f) ==
  /\ call = "telnet_login" /\ pc = "loop"
  /\ ~TelnetLoopCond(i, max_loops)
  /\ LET msg == Accumulate(return_msg, f)
         txt == Scanned(msg, f)
         probe == <<WriteOp(TelnetReturn), SleepOp("0.5"), ReadOp(f)>>
         ops == IF PromptFound(txt) THEN probe ELSE probe \o ProbeFailedHandler
     IN /\ output' = f
        /\ return_msg' = msg
        /\ cycle_ops' = ops
        /\ writes' = writes \o WritesOf(ops)
        /\ closes' = closes + ClosesOf(ops)
        /\ IF PromptFound(txt)
           THEN pc' = "returned" /\ result' = Returned(msg)
           ELSE pc' = "raised" /\ result' = LoginFailed
  /\ frags' = Append(frags, f)
  /\ reads' = reads + 1
  /\ UNCHANGED <<call, max_loops, i, sent_user, sent_pass, sshTotals>>

\* The probe after the loop, read_channel() raising EOFError: the read is
\* outside the try block, so the EOFError leaves the method as it is.
TelnetProbeEOF ==
  /\ call = "telnet_login" /\ pc = "loop"
  /\ ~TelnetLoopCond(i, max_loops)
  /\ LET ops == <<WriteOp(TelnetReturn), SleepOp("0.5"), ReadEOF>>
     IN /\ cycle_ops' = ops
        /\ writes' = writes \o WritesOf(ops)
        /\ closes' = closes + ClosesOf(ops)
  /\ reads' = reads + 1
  /\ pc' = "raised"
  /\ result' = UncaughtEOF
  /\ UNCHANGED <<call, max_loops, i, output, return_msg, sent_user, sent_pass, frags,
                 sshTotals>>

(***************************************************************************)
(* ExtremeErsSSH.special_login_handler                                     *)
(***************************************************************************)
\* the 12 of "while i <= 12"
SshLastAttempt == 12

\* the loop test with one attempt too many
SshLoopCond_OffByOne(n) == n <= SshLastAttempt + 1

\* while i <= 12
SshLoopCond(n) == n <= SshLastAttempt

\* if "Ctrl-Y" in output: self.write_channel(CTRL_Y)
SshCtrlYResponse(out) ==
  IF Contains(out, "Ctrl-Y") THEN <<WriteOp(CTRL_Y)>> ELSE <<>>

\* the credential checks with the password check ahead of the username check
SshCredentialResponse_PasswordFirst(out) ==
  IF ContainsSsword(out) THEN <<WriteOp(SshPassword)>>
  ELSE IF ContainsSername(out) THEN <<WriteOp(SshUsername)>>
  ELSE <<>>

\* if "sername" in output: ... elif "ssword" in output: ...
SshCredentialResponse(out) ==
  IF ContainsSername(out) THEN <<WriteOp(SshUsername)>>
  ELSE IF ContainsSsword(out) THEN <<WriteOp(SshPassword)>>
  ELSE <<>>

\* the password branch without its break
SshBreak_Missing(out) == FALSE

\* the break: taken in the elif branch only
SshBreak(out) == out # <<>> /\ ~ContainsSername(out) /\ ContainsSsword(out)

\* the cycle body with the same sleep in both branches
SshResponses_SameSleep(out) ==
  IF out # <<>>
  THEN SshCtrlYResponse(out) \o SshCredentialResponse(out)
         \o (IF SshBreak(out) THEN <<>> ELSE <<SleepOp("0.5")>>)
  ELSE <<WriteOp(SshReturn), SleepOp("0.5")>>

\* the nudge sent whenever no marker matched, not only on an empty fragment
SshResponses_NudgeOnNoMatch(out) ==
  IF SshCtrlYResponse(out) \o SshCredentialResponse(out) # <<>>
  THEN SshCtrlYResponse(out) \o SshCredentialResponse(out)
         \o (IF SshBreak(out) THEN <<>> ELSE <<SleepOp("0.5")>>)
  ELSE <<WriteOp(SshReturn), SleepOp("1")>>

\* the body of one cycle after the read: "if output: ... else: ..."
SshResponses(out) ==
  IF out # <<>>
  THEN SshCtrlYResponse(out) \o SshCredentialResponse(out)
         \o (IF SshBreak(out) THEN <<>> ELSE <<SleepOp("0.5")>>)
  ELSE <<WriteOp(SshReturn), SleepOp("1")>>

\* the method has no return statement: it returns None
None == <<"None">>

\* exhaustion treated as a failed login
SshExhausted_Raises == LoginFailed

\* the loop test fails: control falls off the end of the method
SshExhausted == Returned(None)

\* One cycle of the loop, read_channel() delivering f, up to the next loop test.
SshCycle(f) ==
  /\ call = "special_login_handler" /\ pc = "loop"
  /\ SshLoopCond(i)
  /\ output' = f
  /\ LET ops == <<ReadOp(f)>> \o SshResponses(f)
     IN /\ cycle_ops' = ops
        /\ user_writes' = user_writes + CountOf(SshUsername, WritesOf(ops))
        /\ pass_writes' = pass_writes + CountOf(SshPassword, WritesOf(ops))
        /\ slept' = slept + SleptOf(ops)
  /\ sername_reads' = sername_reads + (IF ContainsSername(f) THEN 1 ELSE 0)
  /\ empty_reads' = empty_reads + (IF f = <<>> THEN 1 ELSE 0)
  /\ reads' = reads + 1
  /\ IF SshBreak(f)
     THEN /\ i' = i
          /\ pc' = "returned"
          /\ result' = Returned(None)
     ELSE /\ i' = i + 1
          /\ IF SshLoopCond(i + 1)
             THEN pc' = "loop" /\ result' = result
             ELSE pc' = "returned" /\ result' = SshExhausted
  /\ UNCHANGED <<call, max_loops, return_msg, sent_user, sent_pass, frags,
                 writes, closes>>

(***************************************************************************)
(* The specification.                                                      *)
(***************************************************************************)
\* telnet_login up to "i = 1": sleep, then the locals
TelnetInit(limit) ==
  /\ call = "telnet_login"
  /\ max_loops = limit
  /\ i = 1
  /\ output = <<>> /\ return_msg = <<>>
  /\ sent_user = FALSE /\ sent_pass = FALSE
  /\ cycle_ops = <<SleepOp("1")>>

\* special_login_handler up to "i = 0"
SshInit ==
  /\ call = "special_login_handler"
  /\ max_loops = 0
  /\ i = 0
  /\ output = <<>> /\ return_msg = <<>>
  /\ sent_user = FALSE /\ sent_pass = FALSE
  /\ cycle_ops = <<>>

Init ==
  /\ (SshInit \/ \E limit \in 0..MaxLoops : TelnetInit(limit))
  /\ pc = "loop"
  /\ result = NoResult
  /\ frags = <<>> /\ writes = <<>>
  /\ reads = 0 /\ closes = 0
  /\ user_writes = 0 /\ pass_writes = 0
  /\ sername_reads = 0 /\ empty_reads = 0
  /\ slept = 0

Next ==
  \/ \E f \in Fragments : TelnetCycle(f)
  \/ TelnetCycleEOF
  \/ \E f \in Fragments : TelnetProbe(f)
  \/ TelnetProbeEOF
  \/ \E f \in Fragments : SshCycle(f)

Spec == Init /\ [][Next]_vars

(***************************************************************************)
(* Vocabulary of the properties.                                           *)
(***************************************************************************)
Telnet == call = "telnet_login"
Ssh == call = "special_login_handler"

\* the writes of the latest cycle, in order
CycleWrites == WritesOf(cycle_ops)

\* the latest cycle is a loop cycle whose read delivered the fragment output
LoopCycleRead == Len(cycle_ops) > 0 /\ cycle_ops[1] = ReadOp(output)

\* the latest cycle is a loop cycle whose read raised EOFError
LoopCycleEOF == Len(cycle_ops) > 0 /\ cycle_ops[1] = ReadEOF

\* the latest cycle is the probe after telnet_login's loop
ProbeCycle == Len(cycle_ops) > 0 /\ cycle_ops[1] = WriteOp(TelnetReturn)

\* the call raised the authentication error whose message names self.host
RaisedAuthError ==
  /\ pc = "raised"
  /\ result.kind = "raise"
  /\ result.exc = "NetmikoAuthenticationException"
  /\ result.value = <<"Login failed: ", Host>>

\* the fragment matches r"#\s*$" or r">\s*$"
MatchesTerminator(f) == SearchTerminator("#", f) \/ SearchTerminator(">", f)

\* concatenation of a sequence of fragments
RECURSIVE Flatten(_)
Flatten(fs) == IF fs = <<>> THEN <<>> ELSE Head(fs) \o Flatten(Tail(fs))

(***************************************************************************)
(* C1.  Every error that leaves telnet_login is the authentication error   *)
(* naming self.host, raised after remote_conn.close() was called: for an   *)
(* EOFError in a loop cycle, an EOFError in the probe after the loop, and  *)
(* a probe that matches no prompt terminator.                              *)
(* The code does not do this when the probe's read raises EOFError.        *)
(***************************************************************************)
C1_ErrorClosesAndNamesHost ==
  (Telnet /\ pc = "raised") =>
     /\ RaisedAuthError
     /\ closes >= 1
     /\ cycle_ops[Len(cycle_ops)] = CloseOp

(***************************************************************************)
(* C2.  Bounded termination: telnet_login makes at most max_loops + 1      *)
(* calls of read_channel and has ended once it made that many;             *)
(* special_login_handler makes at most 13 and has ended once it made 13.   *)
(* A call that has not ended can always take its next step.                *)
(***************************************************************************)
C2_BoundedReads ==
  /\ Telnet => /\ reads <= max_loops + 1
               /\ reads = max_loops + 1 => pc # "loop"
  /\ Ssh => /\ reads <= 13
            /\ reads = 13 => pc # "loop"
  /\ pc = "loop" => ENABLED Next

C2_Witness ==
  Ssh /\ reads = 13 /\ pc = "returned" /\ output = <<>>

(***************************************************************************)
(* C3.  Idempotent username submission: when the username prompt was read  *)
(* in more than one fragment before any password prompt, telnet_login has  *)
(* written username + TELNET_RETURN exactly once.                          *)
(***************************************************************************)
UsernamePromptsBeforePassword(fs) ==
  Cardinality({k \in 1..Len(fs) :
                 /\ SearchPrompt("Username", fs[k])
                 /\ \A j \in 1..(k-1) : ~SearchPrompt("Password", fs[j])})

C3_UsernameOnce ==
  (Telnet /\ UsernamePromptsBeforePassword(frags) >= 2) =>
     CountOf(TelnetUsername, writes) = 1

C3_Witness ==
  /\ Telnet /\ pc = "returned"
  /\ UsernamePromptsBeforePassword(frags) >= 2
  /\ \E k \in 1..Len(frags) : SearchPrompt("Password", frags[k])
  /\ CountOf(TelnetUsername, writes) = 1

(***************************************************************************)
(* C4.  As claimed: a loop cycle of telnet_login whose fragment matches a  *)
(* prompt terminator returns in that cycle and writes nothing between the  *)
(* read and the return, whatever else the fragment holds.                  *)
(***************************************************************************)
C4_NoWriteBeforeReturn ==
  (Telnet /\ LoopCycleRead /\ MatchesTerminator(output)) =>
     /\ pc = "returned"
     /\ CycleWrites = <<>>

(***************************************************************************)
(* C4, amended.  Such a cycle returns the transcript in that cycle, and    *)
(* every write between the read and the return answers a marker of that    *)
(* same fragment (Ctrl-Y, menu, username prompt, password prompt); a       *)
(* fragment without these markers causes no write.                         *)
(***************************************************************************)
C4_ReturnsSameCycle ==
  (Telnet /\ LoopCycleRead /\ MatchesTerminator(output)) =>
     /\ pc = "returned"
     /\ result.kind = "return"
     /\ \A k \in 1..Len(CycleWrites) :
          LET w == CycleWrites[k] IN
            \/ w = CtrlYLine /\ Contains(output, "Ctrl-Y")
            \/ w = MenuC /\ Contains(output, "Use arrow keys to highlight option")
            \/ w \in {Tab, TelnetUsername} /\ SearchPrompt("Username", output)
            \/ w = TelnetPassword /\ SearchPrompt("Password", output)

C4_Witness ==
  /\ Telnet /\ LoopCycleRead /\ MatchesTerminator(output)
  /\ pc = "returned"
  /\ CycleWrites = <<CtrlYLine>>

(***************************************************************************)
(* C5.  In both methods, a loop cycle whose fragment contains "Ctrl-Y"     *)
(* writes the control sequence first (\x19 in special_login_handler,       *)
(* \x19\n in telnet_login), whatever else the fragment holds.              *)
(***************************************************************************)
C5_CtrlYFirst ==
  (LoopCycleRead /\ Contains(output, "Ctrl-Y")) =>
     /\ Len(CycleWrites) >= 1
     /\ CycleWrites[1] = IF Ssh THEN CTRL_Y ELSE CtrlYLine

C5_Witness ==
  /\ Telnet /\ LoopCycleRead
  /\ Contains(output, "Ctrl-Y")
  /\ SearchPrompt("Username", output)
  /\ Contains(output, "Use arrow keys to highlight option")
  /\ CycleWrites[1] = CtrlYLine

(***************************************************************************)
(* C6.  As claimed: a loop cycle of telnet_login whose fragment contains   *)
(* the menu marker writes c\n as the next write after the read, also when  *)
(* the fragment contains the Ctrl-Y marker.                                *)
(***************************************************************************)
C6_MenuNextWrite ==
  (Telnet /\ LoopCycleRead
     /\ Contains(output, "Use arrow keys to highlight option")) =>
     /\ Len(CycleWrites) >= 1
     /\ CycleWrites[1] = MenuC

(***************************************************************************)
(* C6, amended.  Such a cycle writes c\n as the next write after the read  *)
(* when the fragment has no Ctrl-Y marker, and as the second write,        *)
(* directly after \x19\n, when it has one.                                 *)
(***************************************************************************)
C6_MenuAfterCtrlY ==
  (Telnet /\ LoopCycleRead
     /\ Contains(output, "Use arrow keys to highlight option")) =>
     IF Contains(output, "Ctrl-Y")
     THEN /\ Len(CycleWrites) >= 2
          /\ CycleWrites[1] = CtrlYLine
          /\ CycleWrites[2] = MenuC
     ELSE /\ Len(CycleWrites) >= 1
          /\ CycleWrites[1] = MenuC

C6_Witness ==
  /\ Telnet /\ LoopCycleRead
  /\ Contains(output, "Use arrow keys to highlight option")
  /\ Contains(output, "Ctrl-Y")
  /\ Len(CycleWrites) >= 2
  /\ CycleWrites[2] = MenuC

(***************************************************************************)
(* C7.  An EOFError raised by the read of loop cycle k of telnet_login     *)
(* ends the call there: k reads were made, close() was called exactly      *)
(* once and is the only thing done after the failing read, the call        *)
(* raised the authentication error naming self.host, and nothing follows.  *)
(***************************************************************************)
C7_ReadErrorShortCircuits ==
  (Telnet /\ LoopCycleEOF) =>
     /\ RaisedAuthError
     /\ closes = 1
     /\ cycle_ops = <<ReadEOF, CloseOp>>
     /\ reads = i /\ i <= max_loops
     /\ Len(frags) = reads - 1
     /\ ~ENABLED Next

C7_Witness ==
  /\ Telnet /\ LoopCycleEOF
  /\ pc = "raised"
  /\ reads = 2 /\ reads < max_loops
  /\ closes = 1

(***************************************************************************)
(* C8.  Every transcript telnet_login returns is the concatenation, in     *)
(* order, of every fragment read during the call, the fragment of the      *)
(* probe after the loop included.                                          *)
(***************************************************************************)
C8_TranscriptIsAllFragments ==
  (Telnet /\ pc = "returned") =>
     /\ result.kind = "return"
     /\ result.value = Flatten(frags)

C8_Witness ==
  /\ Telnet /\ pc = "returned" /\ ProbeCycle
  /\ max_loops >= 1
  /\ Len(frags) = max_loops + 1
  /\ \A k \in 1..max_loops : frags[k] = <<>>
  /\ frags[max_loops + 1] = <<"x", ">", "sp">>
  /\ result.value = <<"x", ">", "sp">>

(***************************************************************************)
(* C9.  special_login_handler does not fail on loop exhaustion: after 13   *)
(* cycles of which the last sent no password the call has returned         *)
(* normally, raised nothing and closed nothing.                            *)
(***************************************************************************)
C9_ExhaustionReturns ==
  (Ssh /\ reads = 13 /\ CountOf(SshPassword, CycleWrites) = 0) =>
     /\ pc = "returned"
     /\ result.kind = "return"
     /\ result.exc = ""
     /\ closes = 0
     /\ ClosesOf(cycle_ops) = 0

C9_Witness ==
  /\ Ssh /\ reads = 13 /\ i = 13
  /\ CountOf(SshPassword, CycleWrites) = 0
  /\ pc = "returned"
  /\ result.kind = "return"

(***************************************************************************)
(* C10.  Password-only login: when telnet_login read no username prompt,   *)
(* read a password prompt, and read a later fragment matching a prompt     *)
(* terminator within max_loops cycles, it has returned, wrote the password *)
(* exactly once and wrote neither the username nor the tab.                *)
(***************************************************************************)
PasswordOnlyRun ==
  /\ Telnet
  /\ \A k \in 1..Len(frags) : ~SearchPrompt("Username", frags[k])
  /\ \E j \in 1..Len(frags) : \E k \in (j+1)..Len(frags) :
       /\ k <= max_loops
       /\ SearchPrompt("Password", frags[j])
       /\ MatchesTerminator(frags[k])

C10_PasswordOnly ==
  PasswordOnlyRun =>
     /\ pc = "returned"
     /\ result.kind = "return"
     /\ CountOf(TelnetPassword, writes) = 1
     /\ CountOf(TelnetUsername, writes) = 0
     /\ CountOf(Tab, writes) = 0

C10_Witness ==
  /\ PasswordOnlyRun
  /\ pc = "returned"
  /\ Cardinality({k \in 1..Len(frags) : SearchPrompt("Password", frags[k])}) >= 2
  /\ CountOf(TelnetPassword, writes) = 1

(***************************************************************************)
(* C11.  As claimed: a cycle of special_login_handler whose fragment       *)
(* contains "ssword" writes password + RETURN and ends the loop at once,   *)
(* also when the fragment contains "sername".                              *)
(***************************************************************************)
C11_PasswordAlwaysSent ==
  (Ssh /\ LoopCycleRead /\ ContainsSsword(output)) =>
     /\ CountOf(SshPassword, CycleWrites) = 1
     /\ pc = "returned"
     /\ cycle_ops[Len(cycle_ops)] = WriteOp(SshPassword)

(***************************************************************************)
(* C11, amended.  A cycle whose fragment contains "ssword" and not         *)
(* "sername" writes password + RETURN as its last operation and ends the   *)
(* call at once.  When the fragment also contains "sername" the password   *)
(* check is not reached: the username is written, no password is written   *)
(* and the loop goes on while attempts remain.                             *)
(***************************************************************************)
C11_PasswordUnlessUsername ==
  (Ssh /\ LoopCycleRead /\ ContainsSsword(output)) =>
     IF ContainsSername(output)
     THEN /\ CountOf(SshPassword, CycleWrites) = 0
          /\ CountOf(SshUsername, CycleWrites) = 1
          /\ reads < 13 => pc = "loop"
     ELSE /\ CountOf(SshPassword, CycleWrites) = 1
          /\ cycle_ops[Len(cycle_ops)] = WriteOp(SshPassword)
          /\ pc = "returned"
          /\ result.kind = "return"
          /\ ~ENABLED Next

C11_Witness ==
  /\ Ssh /\ LoopCycleRead
  /\ ContainsSsword(output) /\ ~ContainsSername(output)
  /\ reads >= 2
  /\ pc = "returned"
  /\ cycle_ops[Len(cycle_ops)] = WriteOp(SshPassword)

(***************************************************************************)
(* C12.  After max_loops cycles without success telnet_login makes one     *)
(* probe and ends: the probe is one write, the bare TELNET_RETURN,         *)
(* followed by one read, the (max_loops + 1)-th of the call; no response   *)
(* to a marker of the probe's fragment is written; the call returns when   *)
(* the fragment matches a prompt terminator and otherwise closes the       *)
(* channel and raises the authentication error.                            *)
(***************************************************************************)
ReadsOf(ops) == Cardinality({k \in 1..Len(ops) : ops[k].op = "read"})

C12_OneProbe ==
  /\ (Telnet /\ pc = "loop" /\ i > max_loops) =>
        /\ reads = max_loops
        /\ ENABLED Next
  /\ (Telnet /\ ProbeCycle) =>
        /\ reads = max_loops + 1
        /\ CycleWrites = <<TelnetReturn>>
        /\ ReadsOf(cycle_ops) = 1
        /\ cycle_ops[3].op = "read"
        /\ pc # "loop"
        /\ ~ENABLED Next
        /\ cycle_ops[3] = ReadOp(output) =>
             IF MatchesTerminator(output)
             THEN pc = "returned" /\ result.kind = "return" /\ closes = 0
             ELSE RaisedAuthError /\ closes = 1

C12_Witness ==
  /\ Telnet /\ ProbeCycle
  /\ max_loops >= 1
  /\ cycle_ops[3] = ReadOp(output)
  /\ Contains(output, "Ctrl-Y")
  /\ SearchPrompt("Username", output)
  /\ ~sent_user
  /\ CycleWrites = <<TelnetReturn>>
  /\ RaisedAuthError

(***************************************************************************)
(* C13.  The four recognizers of telnet_login are independent within one   *)
(* cycle: a loop cycle entered with sent_user and sent_pass false whose    *)
(* fragment holds the Ctrl-Y marker, the menu marker, a username prompt    *)
(* and a password prompt writes \x19\n, c\n, tab, username +               *)
(* TELNET_RETURN, password + TELNET_RETURN, in this order and nothing      *)
(* else, and sets both flags.                                              *)
(***************************************************************************)
AllFourMarkers(f) ==
  /\ Contains(f, "Ctrl-Y")
  /\ Contains(f, "Use arrow keys to highlight option")
  /\ SearchPrompt("Username", f)
  /\ SearchPrompt("Password", f)

C13_AllFourInOneCycle ==
  [][ (/\ Telnet /\ pc = "loop"
       /\ ~sent_user /\ ~sent_pass
       /\ cycle_ops'[1] = ReadOp(output')
       /\ reads' = reads + 1
       /\ AllFourMarkers(output'))
      => /\ WritesOf(cycle_ops') =
              <<CtrlYLine, MenuC, Tab, TelnetUsername, TelnetPassword>>
         /\ sent_user' /\ sent_pass' ]_vars

C13_Witness ==
  /\ Telnet /\ LoopCycleRead
  /\ AllFourMarkers(output)
  /\ CycleWrites = <<CtrlYLine, MenuC, Tab, TelnetUsername, TelnetPassword>>
  /\ writes = CycleWrites
  /\ sent_user /\ sent_pass

(***************************************************************************)
(* C14.  In every state of telnet_login the username was written at most   *)
(* once and the password at most once, sent_user (sent_pass) is true       *)
(* exactly when the username (password) was written, and no step turns a   *)
(* flag back to false.                                                     *)
(***************************************************************************)
PromptReads(word) ==
  Cardinality({k \in 1..Len(frags) : SearchPrompt(word, frags[k])})

C14_FlagsTrackWrites ==
  /\ [](Telnet =>
          /\ CountOf(TelnetUsername, writes) <= 1
          /\ CountOf(TelnetPassword, writes) <= 1
          /\ sent_user <=> CountOf(TelnetUsername, writes) = 1
          /\ sent_pass <=> CountOf(TelnetPassword, writes) = 1)
  /\ [][ (sent_user => sent_user') /\ (sent_pass => sent_pass') ]_vars

C14_Witness ==
  /\ Telnet
  /\ PromptReads("Username") >= 2
  /\ PromptReads("Password") >= 2
  /\ sent_user /\ sent_pass
  /\ CountOf(TelnetUsername, writes) = 1
  /\ CountOf(TelnetPassword, writes) = 1

(***************************************************************************)
(* C15.  A cycle of special_login_handler writes the bare RETURN exactly   *)
(* when its fragment is empty, and then writes nothing else; a non-empty   *)
(* fragment without "Ctrl-Y", "sername" and "ssword" causes no write.      *)
(***************************************************************************)
NoSshMarker(f) ==
  ~Contains(f, "Ctrl-Y") /\ ~ContainsSername(f) /\ ~ContainsSsword(f)

C15_NudgeIffEmpty ==
  (Ssh /\ LoopCycleRead) =>
     /\ CountOf(SshReturn, CycleWrites) >= 1 <=> output = <<>>
     /\ output = <<>> => CycleWrites = <<SshReturn>>
     /\ (output # <<>> /\ NoSshMarker(output)) => CycleWrites = <<>>

C15_Witness ==
  /\ Ssh /\ LoopCycleRead
  /\ output # <<>> /\ NoSshMarker(output)
  /\ CycleWrites = <<>>
  /\ pc = "loop"

(***************************************************************************)
(* C16.  As claimed: telnet_login searches the accumulated output, so a    *)
(* credential prompt that neither of two successive fragments holds on its *)
(* own, and that their concatenation holds, is answered in the cycle that  *)
(* reads the second fragment.                                              *)
(***************************************************************************)
Credential(word) == IF word = "Username" THEN TelnetUsername ELSE TelnetPassword

\* the latest two fragments, both read in the loop, complete a prompt for
\* word that no fragment read so far holds on its own
SplitPrompt(word) ==
  /\ Telnet /\ LoopCycleRead
  /\ Len(frags) >= 2
  /\ \A k \in 1..Len(frags) : ~SearchPrompt(word, frags[k])
  /\ SearchPrompt(word, frags[Len(frags) - 1] \o frags[Len(frags)])

C16_SplitPromptRecognized ==
  \A word \in {"Username", "Password"} :
     SplitPrompt(word) => CountOf(Credential(word), CycleWrites) = 1

(***************************************************************************)
(* C16, amended.  telnet_login searches the fragment read in the current   *)
(* cycle only, not the accumulated return_msg: such a split prompt is not  *)
(* recognized, its credential is not written and its flag stays false.     *)
(***************************************************************************)
C16_SplitPromptMissed ==
  \A word \in {"Username", "Password"} :
     SplitPrompt(word) =>
        /\ CountOf(Credential(word), writes) = 0
        /\ ~(IF word = "Username" THEN sent_user ELSE sent_pass)

C16_Witness ==
  /\ SplitPrompt("Username")
  /\ frags[Len(frags) - 1] = <<"Enter">>
  /\ output = <<"sp", "Username">>
  /\ SearchPrompt("Username", return_msg)
  /\ ~sent_user
  /\ CycleWrites = <<>>

(***************************************************************************)
(* C17.  telnet_login calls remote_conn.close() at most once and only on   *)
(* a path that ends in the authentication error: a call that is running    *)
(* or has returned a transcript has not closed the channel, and close() is *)
(* the last channel operation of the call.                                 *)
(***************************************************************************)
C17_CloseOnlyOnFailure ==
  Telnet =>
     /\ closes <= 1
     /\ closes = 1 =>
          /\ RaisedAuthError
          /\ ClosesOf(cycle_ops) = 1
          /\ cycle_ops[Len(cycle_ops)] = CloseOp
          /\ ~ENABLED Next
     /\ pc \in {"loop", "returned"} =>
          /\ closes = 0
          /\ ClosesOf(cycle_ops) = 0

C17_Witness ==
  /\ Telnet /\ closes = 1
  /\ ProbeCycle
  /\ Len(writes) >= 2
  /\ cycle_ops[Len(cycle_ops)] = CloseOp
  /\ result.exc = "NetmikoAuthenticationException"

(***************************************************************************)
(* C18.  special_login_handler keeps no sent-username state: it wrote      *)
(* username + RETURN as many times as it read a fragment containing        *)
(* "sername"; it wrote the password at most once, and that write is the    *)
(* last channel operation of the call.                                     *)
(***************************************************************************)
C18_UsernameEveryTime ==
  Ssh =>
     /\ user_writes = sername_reads
     /\ pass_writes <= 1
     /\ pass_writes = 1 =>
          /\ pc = "returned"
          /\ cycle_ops[Len(cycle_ops)] = WriteOp(SshPassword)
          /\ ~ENABLED Next

C18_Witness ==
  /\ Ssh /\ pc = "returned"
  /\ sername_reads >= 2
  /\ user_writes = sername_reads
  /\ pass_writes = 1

(***************************************************************************)
(* C19.  As claimed: every cycle of special_login_handler sleeps exactly   *)
(* once, 0.5 x delay_factor after a non-empty fragment and 1 x             *)
(* delay_factor after an empty one, the cycle that sends the password      *)
(* included, and the time slept by the call is the sum of these amounts.   *)
(* Times are in tenths of delay_factor: 5 and 10.                          *)
(***************************************************************************)
SleepsOf(ops) == Cardinality({k \in 1..Len(ops) : ops[k].op = "sleep"})

C19_EveryCycleSleeps ==
  (Ssh /\ LoopCycleRead) =>
     /\ SleepsOf(cycle_ops) = 1
     /\ SleptOf(cycle_ops) = IF output = <<>> THEN 10 ELSE 5
     /\ slept = 5 * (reads - empty_reads) + 10 * empty_reads

(***************************************************************************)
(* C19, amended.  Every cycle but the one that sends the password sleeps   *)
(* exactly once, 0.5 x delay_factor after a non-empty fragment and 1 x     *)
(* delay_factor after an empty one; the cycle that sends the password      *)
(* leaves the loop without sleeping.  The time slept by the call is the    *)
(* sum of these amounts over the cycles that sent no password.             *)
(***************************************************************************)
C19_SleepsUnlessPassword ==
  (Ssh /\ LoopCycleRead) =>
     /\ IF CountOf(SshPassword, CycleWrites) = 1
        THEN SleepsOf(cycle_ops) = 0 /\ SleptOf(cycle_ops) = 0
        ELSE /\ SleepsOf(cycle_ops) = 1
             /\ SleptOf(cycle_ops) = IF output = <<>> THEN 10 ELSE 5
     /\ slept = 5 * (reads - empty_reads - pass_writes) + 10 * empty_reads

C19_Witness ==
  /\ Ssh /\ LoopCycleRead
  /\ CountOf(SshPassword, CycleWrites) = 1
  /\ SleepsOf(cycle_ops) = 0
  /\ empty_reads >= 1
  /\ reads - empty_reads >= 2
  /\ slept = 5 * (reads - empty_reads - 1) + 10 * empty_reads

====
